---- MODULE Spec2Model ----
(***************************************************************************)
(* The fixed-record storage engine of CarRent-BinIO (car_rental_binio.py): *)
(* one BinTable over one file made of a header, an open-addressing index   *)
(* and a record region with a free list threaded through deleted records.  *)
(*                                                                         *)
(* The file is modelled region by region: file_h is the header stored at   *)
(* offset 0, index the array of index slots, recs the record region (the   *)
(* record at position i is recs[i+1]).  h is the engine's in-memory header *)
(* cache, f the file handle.  A record is modelled by its flag byte, one   *)
(* value standing for its entity fields, and the 4 bytes at pad_off that   *)
(* hold the next-free position while the record is on the free list.  The  *)
(* timestamps created_at / updated_at are left out.                        *)
(***************************************************************************)
EXTENDS Integers, Sequences, FiniteSets, TLC

\* ------------------------------------------------------------- bounds
Slots == 3        \* index capacity the table is constructed with
MaxVal == 2       \* record contents passed by callers are 1..MaxVal
MaxIds == 1       \* next_id() is called at most MaxIds times
MaxIdsReopen == 2 \* the same, in the runs that close and reopen the file
MaxOpens == 2     \* open() is called at most MaxOpens times
MaxDeleted == 2   \* deleted_count is counted up to MaxDeleted
MaxDeletedLifo == 3   \* the same, in the runs that track the free-list order
MaxIdsVals == 1       \* next_id() calls in the runs with MaxVal record contents
MaxDeletedVals == 1   \* deletions in the capacity-4 runs
SlotsVals == 2        \* index capacity in the runs with MaxVal record contents
MaxAllocs == 6        \* add is called at most MaxAllocs times in the runs that count allocations
CustSlots == 1        \* index capacity of the application's customers table
CarsSlots == 2        \* index capacity of the application's cars table
ContSlots == 1        \* index capacity of the application's contracts table
MaxCustIds == 1       \* customers.next_id() is called at most MaxCustIds times
MaxCarIds == 2        \* cars.next_id() is called at most MaxCarIds times
MaxContIds == 3       \* contracts.next_id() is called at most MaxContIds times
MaxAppDeleted == 1    \* deleted_count of each table of the application is counted up to MaxAppDeleted
MaxRun == 17          \* a text value starts with up to MaxRun copies of one character
MaxTail == 1          \* and ends with up to MaxTail further characters
RentCarsSlots == 1    \* index capacity of the cars table in the runs with two contracts
RentContSlots == 2    \* index capacity of the contracts table in those runs
RentMaxCarIds == 1    \* cars.next_id() is called at most RentMaxCarIds times in those runs
RentMaxContIds == 2   \* contracts.next_id() is called at most RentMaxContIds times in those runs

\* ------------------------------------------------------------- constants
\* 0xFFFFFFFF, the largest value of the 4-byte key field; written here as
\* the largest integer TLC represents, so it stays above every stored key
TOMBSTONE_KEY == 2147483647
CARS_SIZE == 128
CUST_SIZE == 128
CONT_SIZE == 64

Vals == 1..MaxVal

VARIABLES
    slots,    \* the index capacity the engine was constructed with
    f,        \* the file handle: "None" or "open"
    exists,   \* whether the file exists on disk
    h,        \* the in-memory header (None before open)
    file_h,   \* the header stored in the file
    index,    \* the index region: slot number -> IndexSlot
    recs,     \* the record region: sequence of records
    last,     \* the last call made and its outcome: "ok" or the error raised
    ids,      \* history: the values next_id() has returned, in order
    kv,       \* history: key -> record of the successful add/update/delete calls
    opens,    \* history: how many times open() has succeeded
    lifo,     \* history: progress through delete, delete, add, add (SpecLifo)
    allocs,   \* history: record positions handed out, and adds that failed (SpecAlloc)
    it,       \* the iterator in progress, None when there is none (SpecIter)
    customers,    \* App.customers: the customers table (SpecApp)
    cars,         \* App.cars: the cars table (SpecApp)
    contracts,    \* App.contracts: the contracts table (SpecApp)
    out,      \* what the last menu command of the application did, in order (SpecApp)
    rt        \* a record value on its way through pack and unpack (SpecPack)

\* the variables of the application over its three tables
app == <<customers, cars, contracts, out>>

vars == <<slots, f, exists, h, file_h, index, recs, last, ids, kv, opens, lifo,
          allocs, it, customers, cars, contracts, out, rt>>

None == [none |-> TRUE]

\* ------------------------------------------------------------- layout
IndexSlot(key, rec_index) == [key |-> key, rec_index |-> rec_index]

\* mutant: a new header names position 0 as the head of the free list
Header_new_free_head_zero(magic, record_size, index_slots) ==
    [magic |-> magic, record_size |-> record_size, next_id |-> 1,
     active_count |-> 0, deleted_count |-> 0, free_head |-> 0,
     index_slots |-> index_slots]

Header_new(magic, record_size, index_slots) ==
    [magic |-> magic, record_size |-> record_size, next_id |-> 1,
     active_count |-> 0, deleted_count |-> 0, free_head |-> -1,
     index_slots |-> index_slots]

\* the bytes Cars.pack produces: the flag, the fields, and a zeroed pad
pack(flag, v) == [flag |-> flag, val |-> v, next_free |-> 0]

\* ------------------------------------------------------------- index helpers
\* key % index_slots; for the sentinel, the remainder of 0xFFFFFFFF =
\* 2 * 2147483647 + 1, which differs from that of the number written here
hash(hd, key) ==
    IF key = TOMBSTONE_KEY
    THEN (2 * (TOMBSTONE_KEY % hd.index_slots) + 1) % hd.index_slots
    ELSE key % hd.index_slots

RECURSIVE find_slot_scan(_, _, _, _, _)
find_slot_scan(idx, hd, key, i, first_tomb) ==
    IF i >= hd.index_slots
    THEN [res |-> "index full", slot |-> -1]
    ELSE LET j == (hash(hd, key) + i) % hd.index_slots
             sl == idx[j]
             ft == IF sl.key = TOMBSTONE_KEY /\ first_tomb < 0 THEN j ELSE first_tomb
         IN  IF sl.key = key
             THEN [res |-> "duplicate key", slot |-> -1]
             ELSE IF sl.key = 0
                  THEN [res |-> "ok", slot |-> IF ft >= 0 THEN ft ELSE j]
                  ELSE find_slot_scan(idx, hd, key, i + 1, ft)

\* mutant: the probe starts one slot after the key's home slot
find_slot_skip_home(idx, hd, key) == find_slot_scan(idx, hd, key, 1, -1)

\* mutant: the probe returns the first tombstone as soon as it meets it
RECURSIVE find_slot_stop_at_tomb_scan(_, _, _, _)
find_slot_stop_at_tomb_scan(idx, hd, key, i) ==
    IF i >= hd.index_slots
    THEN [res |-> "index full", slot |-> -1]
    ELSE LET j == (hash(hd, key) + i) % hd.index_slots
             sl == idx[j]
         IN  IF sl.key = key
             THEN [res |-> "duplicate key", slot |-> -1]
             ELSE IF sl.key = 0 \/ sl.key = TOMBSTONE_KEY
                  THEN [res |-> "ok", slot |-> j]
                  ELSE find_slot_stop_at_tomb_scan(idx, hd, key, i + 1)

find_slot_stop_at_tomb(idx, hd, key) == find_slot_stop_at_tomb_scan(idx, hd, key, 0)

\* mutant: the probe records the last tombstone it meets, not the first
RECURSIVE find_slot_last_tomb_scan(_, _, _, _, _)
find_slot_last_tomb_scan(idx, hd, key, i, last_tomb) ==
    IF i >= hd.index_slots
    THEN [res |-> "index full", slot |-> -1]
    ELSE LET j == (hash(hd, key) + i) % hd.index_slots
             sl == idx[j]
             lt == IF sl.key = TOMBSTONE_KEY THEN j ELSE last_tomb
         IN  IF sl.key = key
             THEN [res |-> "duplicate key", slot |-> -1]
             ELSE IF sl.key = 0
                  THEN [res |-> "ok", slot |-> IF lt >= 0 THEN lt ELSE j]
                  ELSE find_slot_last_tomb_scan(idx, hd, key, i + 1, lt)

find_slot_last_tomb(idx, hd, key) == find_slot_last_tomb_scan(idx, hd, key, 0, -1)

find_slot_for_insert(idx, hd, key) == find_slot_scan(idx, hd, key, 0, -1)

RECURSIVE lookup_scan(_, _, _, _)
lookup_scan(idx, hd, key, i) ==
    IF i >= hd.index_slots
    THEN [found |-> FALSE, slot |-> -1, rec_index |-> -1]
    ELSE LET j == (hash(hd, key) + i) % hd.index_slots
             sl == idx[j]
         IN  IF sl.key = 0
             THEN [found |-> FALSE, slot |-> -1, rec_index |-> -1]
             ELSE IF sl.key = key
                  THEN [found |-> TRUE, slot |-> j, rec_index |-> sl.rec_index]
                  ELSE lookup_scan(idx, hd, key, i + 1)

\* mutant: the lookup probe treats a tombstone as the end of the chain
RECURSIVE lookup_stop_at_tomb_scan(_, _, _, _)
lookup_stop_at_tomb_scan(idx, hd, key, i) ==
    IF i >= hd.index_slots
    THEN [found |-> FALSE, slot |-> -1, rec_index |-> -1]
    ELSE LET j == (hash(hd, key) + i) % hd.index_slots
             sl == idx[j]
         IN  IF sl.key = 0 \/ sl.key = TOMBSTONE_KEY
             THEN [found |-> FALSE, slot |-> -1, rec_index |-> -1]
             ELSE IF sl.key = key
                  THEN [found |-> TRUE, slot |-> j, rec_index |-> sl.rec_index]
                  ELSE lookup_stop_at_tomb_scan(idx, hd, key, i + 1)

lookup_stop_at_tomb(idx, hd, key) == lookup_stop_at_tomb_scan(idx, hd, key, 0)

\* _lookup returns the rec_index, _slot_of_key the slot, of the same probe
lookup(idx, hd, key) == lookup_scan(idx, hd, key, 0)
slot_of_key(idx, hd, key) == lookup_scan(idx, hd, key, 0)

\* ------------------------------------------------------------- record space
records_count(rs) == Len(rs)

\* the bytes at a position past the end of the file read as empty
read_raw(rs, i) == IF i >= 0 /\ i < Len(rs) THEN rs[i + 1] ELSE None

write_raw(rs, i, data) ==
    IF i < Len(rs) THEN [rs EXCEPT ![i + 1] = data] ELSE Append(rs, data)

\* mutant: the deleted record is marked as the end of the free list
write_next_free_end(rs, i, next_free) ==
    [rs EXCEPT ![i + 1].next_free = -1]

write_next_free(rs, i, next_free) ==
    [rs EXCEPT ![i + 1].next_free = next_free]

\* mutant: the free list is ignored, every record goes to the end of the file
alloc_rec_index_append(hd, rs) ==
    [i |-> records_count(rs), free_head |-> hd.free_head]

\* mutant: the head of the free list is handed out but not popped
alloc_rec_index_no_pop(hd, rs) ==
    IF hd.free_head # -1
    THEN [i |-> hd.free_head, free_head |-> hd.free_head]
    ELSE [i |-> records_count(rs), free_head |-> hd.free_head]

\* the position handed out and the free_head left in the in-memory header
alloc_rec_index(hd, rs) ==
    IF hd.free_head # -1
    THEN [i |-> hd.free_head, free_head |-> rs[hd.free_head + 1].next_free]
    ELSE [i |-> records_count(rs), free_head |-> hd.free_head]

read_record(idx, hd, rs, key) ==
    LET l == lookup(idx, hd, key)
    IN  IF l.found THEN read_raw(rs, l.rec_index) ELSE None

\* ------------------------------------------------------------- operations
\* a call's name and its outcome ("ok" or the error raised)
Call(op, res) == [op |-> op, res |-> res]

\* callers pass keys 1..slots+1: one more distinct key than the index holds
Keys == 1..(slots + 1)
\* the file is let grow to slots+1 record positions
MaxRecs == slots + 1

NoAllocs == [n |-> 0, failed |-> 0]

NoLifo == [stage |-> 0, a |-> -1, b |-> -1, n |-> -1, first |-> -1, second |-> -1]

\* BinTable.__init__, on a path where no file exists yet
Construct(n) ==
    /\ slots = n
    /\ f = "None"
    /\ exists = FALSE
    /\ h = None
    /\ file_h = None
    /\ index = <<>>
    /\ recs = <<>>
    /\ last = Call("init", "ok")
    /\ ids = <<>>
    /\ kv = <<>>
    /\ opens = 0
    /\ lifo = NoLifo
    /\ allocs = NoAllocs
    /\ it = None
    /\ customers = None
    /\ cars = None
    /\ contracts = None
    /\ out = <<>>
    /\ rt = None

Init == Construct(Slots)

\* BinTable.open on a path that does not exist
open_new ==
    /\ f = "None"
    /\ ~exists
    /\ f' = "open"
    /\ exists' = TRUE
    /\ h' = Header_new("CARS", CARS_SIZE, slots)
    /\ file_h' = h'
    /\ index' = [j \in 0..(slots - 1) |-> IndexSlot(0, 0)]
    /\ recs' = <<>>
    /\ last' = Call("open", "ok")
    /\ opens' = opens + 1
    /\ UNCHANGED <<slots, ids, kv>>

\* mutant: the incremented next_id is not written to the file
next_id_unsaved ==
    /\ f = "open"
    /\ h' = [h EXCEPT !.next_id = h.next_id + 1]
    /\ ids' = Append(ids, h.next_id)
    /\ last' = Call("next_id", "ok")
    /\ UNCHANGED <<slots, f, exists, file_h, index, recs, kv, opens>>

\* mutant: the id is returned but the counter is not advanced
next_id_not_advanced ==
    /\ f = "open"
    /\ h' = h
    /\ file_h' = h'
    /\ ids' = Append(ids, h.next_id)
    /\ last' = Call("next_id", "ok")
    /\ UNCHANGED <<slots, f, exists, index, recs, kv, opens>>

next_id ==
    /\ f = "open"
    /\ h' = [h EXCEPT !.next_id = h.next_id + 1]
    /\ file_h' = h'
    /\ ids' = Append(ids, h.next_id)
    /\ last' = Call("next_id", "ok")
    /\ UNCHANGED <<slots, f, exists, index, recs, kv, opens>>

\* mutant: a successful add does not write the header
add_record_unsaved(key, packed) ==
    /\ f = "open"
    /\ LET a == alloc_rec_index(h, recs)
           rs1 == write_raw(recs, a.i, packed)
           h1 == [h EXCEPT !.free_head = a.free_head]
           s == find_slot_for_insert(index, h1, key)
       IN  /\ a.i < MaxRecs
           /\ recs' = rs1
           /\ IF s.res = "ok"
              THEN /\ index' = [index EXCEPT ![s.slot] = IndexSlot(key, a.i)]
                   /\ h' = [h1 EXCEPT !.active_count = h1.active_count + 1]
                   /\ kv' = (key :> packed) @@ kv
                   /\ UNCHANGED file_h
              ELSE /\ h' = h1
                   /\ UNCHANGED <<index, file_h, kv>>
           /\ last' = Call("add", s.res)
    /\ UNCHANGED <<slots, f, exists, ids, opens>>

\* mutant: an add that fails at the index insert writes nothing
add_record_rolls_back(key, packed) ==
    /\ f = "open"
    /\ LET a == alloc_rec_index(h, recs)
           rs1 == write_raw(recs, a.i, packed)
           h1 == [h EXCEPT !.free_head = a.free_head]
           s == find_slot_for_insert(index, h1, key)
       IN  /\ a.i < MaxRecs
           /\ IF s.res = "ok"
              THEN /\ recs' = rs1
                   /\ index' = [index EXCEPT ![s.slot] = IndexSlot(key, a.i)]
                   /\ h' = [h1 EXCEPT !.active_count = h1.active_count + 1]
                   /\ file_h' = h'
                   /\ kv' = (key :> packed) @@ kv
              ELSE UNCHANGED <<recs, h, index, file_h, kv>>
           /\ last' = Call("add", s.res)
    /\ UNCHANGED <<slots, f, exists, ids, opens>>

add_record(key, packed) ==
    /\ f = "open"
    /\ LET a == alloc_rec_index(h, recs)
           rs1 == write_raw(recs, a.i, packed)
           h1 == [h EXCEPT !.free_head = a.free_head]
           s == find_slot_for_insert(index, h1, key)
       IN  /\ a.i < MaxRecs
           /\ recs' = rs1
           /\ IF s.res = "ok"
              THEN /\ index' = [index EXCEPT ![s.slot] = IndexSlot(key, a.i)]
                   /\ h' = [h1 EXCEPT !.active_count = h1.active_count + 1]
                   /\ file_h' = h'
                   /\ kv' = (key :> packed) @@ kv
              ELSE /\ h' = h1
                   /\ UNCHANGED <<index, file_h, kv>>
           /\ last' = Call("add", s.res)
    /\ UNCHANGED <<slots, f, exists, ids, opens>>

\* mutant: the header is written before the key is looked up
update_record_saves_first(key, packed) ==
    /\ f = "open"
    /\ file_h' = h
    /\ LET l == lookup(index, h, key)
       IN  IF ~l.found
           THEN /\ last' = Call("update", "not found")
                /\ UNCHANGED <<h, index, recs, kv>>
           ELSE /\ recs' = write_raw(recs, l.rec_index, packed)
                /\ last' = Call("update", "ok")
                /\ kv' = (key :> packed) @@ kv
                /\ UNCHANGED <<h, index>>
    /\ UNCHANGED <<slots, f, exists, ids, opens>>

\* mutant: the record is written but the header is not
update_record_unsaved(key, packed) ==
    /\ f = "open"
    /\ LET l == lookup(index, h, key)
       IN  IF ~l.found
           THEN /\ last' = Call("update", "not found")
                /\ UNCHANGED <<h, file_h, index, recs, kv>>
           ELSE /\ recs' = write_raw(recs, l.rec_index, packed)
                /\ last' = Call("update", "ok")
                /\ kv' = (key :> packed) @@ kv
                /\ UNCHANGED <<h, file_h, index>>
    /\ UNCHANGED <<slots, f, exists, ids, opens>>

\* mutant: the record is written at the slot number, not at the slot's rec_index
update_record_at_slot(key, packed) ==
    /\ f = "open"
    /\ LET l == lookup(index, h, key)
       IN  IF ~l.found
           THEN /\ last' = Call("update", "not found")
                /\ UNCHANGED <<h, file_h, index, recs, kv>>
           ELSE /\ recs' = write_raw(recs, l.slot, packed)
                /\ file_h' = h
                /\ last' = Call("update", "ok")
                /\ kv' = (key :> packed) @@ kv
                /\ UNCHANGED <<h, index>>
    /\ UNCHANGED <<slots, f, exists, ids, opens>>

update_record(key, packed) ==
    /\ f = "open"
    /\ LET l == lookup(index, h, key)
       IN  IF ~l.found
           THEN /\ last' = Call("update", "not found")
                /\ UNCHANGED <<h, file_h, index, recs, kv>>
           ELSE /\ recs' = write_raw(recs, l.rec_index, packed)
                /\ file_h' = h
                /\ last' = Call("update", "ok")
                /\ kv' = (key :> packed) @@ kv
                /\ UNCHANGED <<h, index>>
    /\ UNCHANGED <<slots, f, exists, ids, opens>>

\* mutant: a delete decrements active_count but does not count the deletion
delete_record_uncounted(key) ==
    /\ f = "open"
    /\ LET l == lookup(index, h, key)
       IN  IF ~l.found
           THEN /\ last' = Call("delete", "not found")
                /\ UNCHANGED <<h, file_h, index, recs, kv>>
           ELSE LET ri == l.rec_index
                    rs1 == write_raw(recs, ri, [read_raw(recs, ri) EXCEPT !.flag = 0])
                    rs2 == write_next_free(rs1, ri, h.free_head)
                    sj == slot_of_key(index, h, key)
                IN  /\ recs' = rs2
                    /\ index' = IF sj.found
                                THEN [index EXCEPT ![sj.slot] = IndexSlot(TOMBSTONE_KEY, 0)]
                                ELSE index
                    /\ h' = [h EXCEPT !.free_head = ri,
                                      !.active_count = h.active_count - 1]
                    /\ file_h' = h'
                    /\ last' = Call("delete", "ok")
                    /\ kv' = [k \in (DOMAIN kv) \ {key} |-> kv[k]]
    /\ UNCHANGED <<slots, f, exists, ids, opens>>

\* mutant: a delete marks the key's index slot as empty
delete_record_empties_slot(key) ==
    /\ f = "open"
    /\ LET l == lookup(index, h, key)
       IN  IF ~l.found
           THEN /\ last' = Call("delete", "not found")
                /\ UNCHANGED <<h, file_h, index, recs, kv>>
           ELSE LET ri == l.rec_index
                    rs1 == write_raw(recs, ri, [read_raw(recs, ri) EXCEPT !.flag = 0])
                    rs2 == write_next_free(rs1, ri, h.free_head)
                    sj == slot_of_key(index, h, key)
                IN  /\ recs' = rs2
                    /\ index' = IF sj.found
                                THEN [index EXCEPT ![sj.slot] = IndexSlot(0, 0)]
                                ELSE index
                    /\ h' = [h EXCEPT !.free_head = ri,
                                      !.active_count = h.active_count - 1,
                                      !.deleted_count = h.deleted_count + 1]
                    /\ file_h' = h'
                    /\ last' = Call("delete", "ok")
                    /\ kv' = [k \in (DOMAIN kv) \ {key} |-> kv[k]]
    /\ UNCHANGED <<slots, f, exists, ids, opens>>

delete_record(key) ==
    /\ f = "open"
    /\ LET l == lookup(index, h, key)
       IN  IF ~l.found
           THEN /\ last' = Call("delete", "not found")
                /\ UNCHANGED <<h, file_h, index, recs, kv>>
           ELSE LET ri == l.rec_index
                    rs1 == write_raw(recs, ri, [read_raw(recs, ri) EXCEPT !.flag = 0])
                    rs2 == write_next_free(rs1, ri, h.free_head)
                    sj == slot_of_key(index, h, key)
                IN  /\ recs' = rs2
                    /\ index' = IF sj.found
                                THEN [index EXCEPT ![sj.slot] = IndexSlot(TOMBSTONE_KEY, 0)]
                                ELSE index
                    /\ h' = [h EXCEPT !.free_head = ri,
                                      !.active_count = h.active_count - 1,
                                      !.deleted_count = h.deleted_count + 1]
                    /\ file_h' = h'
                    /\ last' = Call("delete", "ok")
                    /\ kv' = [k \in (DOMAIN kv) \ {key} |-> kv[k]]
    /\ UNCHANGED <<slots, f, exists, ids, opens>>

\* mutant: only the record size of an existing file is compared
open_existing_size_only ==
    /\ f = "None"
    /\ exists
    /\ f' = "open"
    /\ h' = file_h
    /\ last' = IF file_h.record_size # CARS_SIZE
               THEN Call("open", "bad file format")
               ELSE Call("open", "ok")
    /\ opens' = opens + 1
    /\ UNCHANGED <<slots, exists, file_h, index, recs, ids, kv>>

\* BinTable.open on a file that exists: the header is read back from the file
open_existing ==
    /\ f = "None"
    /\ exists
    /\ f' = "open"
    /\ h' = file_h
    /\ last' = IF file_h.magic # "CARS" \/ file_h.record_size # CARS_SIZE
               THEN Call("open", "bad file format")
               ELSE Call("open", "ok")
    /\ opens' = opens + 1
    /\ UNCHANGED <<slots, exists, file_h, index, recs, ids, kv>>

\* BinTable.close: buffered writes reach the file, the header cache is not written
close ==
    /\ f = "open"
    /\ f' = "None"
    /\ last' = Call("close", "ok")
    /\ UNCHANGED <<slots, exists, h, file_h, index, recs, ids, kv, opens>>

\* iter_active / iter_all are generators: the call only creates the iterator,
\* nothing of the body runs before the first item is requested
iter_new(kind) ==
    /\ f = "open"
    /\ it = None
    /\ it' = [kind |-> kind, started |-> FALSE, done |-> FALSE, n |-> 0, i |-> 0,
              out |-> <<>>, snap |-> <<>>]
    /\ UNCHANGED <<slots, f, exists, h, file_h, index, recs, last, ids, kv, opens>>

\* what the loop body yields of the bytes read at one position
yields(kind, raw) ==
    /\ raw # None
    /\ kind = "active" => raw.flag = 1

\* the positions from i up to n - 1 whose record, as the file holds it now,
\* is yielded
yielding(kind, rs, i, n) == {j \in i..(n - 1) : yields(kind, read_raw(rs, j))}

\* one request for the next item: the first one evaluates range(N), every
\* one runs the loop up to its next yield or to its end.  out keeps what
\* was yielded, snap the records as they were at the first request
iter_next ==
    /\ f = "open"
    /\ it # None
    /\ ~it.done
    /\ LET n == IF it.started THEN it.n ELSE records_count(recs)
           snap == IF it.started THEN it.snap ELSE recs
           todo == yielding(it.kind, recs, it.i, n)
       IN  IF todo = {}
           THEN it' = [it EXCEPT !.started = TRUE, !.done = TRUE, !.n = n,
                                 !.i = n, !.snap = snap]
           ELSE LET j == CHOOSE m \in todo : \A q \in todo : m <= q
                IN  it' = [it EXCEPT !.started = TRUE, !.n = n, !.i = j + 1,
                                     !.snap = snap,
                                     !.out = Append(it.out, <<j, read_raw(recs, j)>>)]
    /\ UNCHANGED <<slots, f, exists, h, file_h, index, recs, last, ids, kv, opens>>

\* the iterator is dropped, finished or not
iter_drop ==
    /\ it # None
    /\ it' = None
    /\ UNCHANGED <<slots, f, exists, h, file_h, index, recs, last, ids, kv, opens>>

\* deleted_count is counted up to d: a delete that would succeed is left out
CanDelete(key, d) ==
    f = "open" /\ (lookup(index, h, key).found => h.deleted_count < d)

\* one call on the open engine, with keys from K, contents from V, at most n
\* ids and d deletions
Step(K, V, n, d) ==
    \/ open_new
    \/ Len(ids) < n /\ next_id
    \/ \E key \in K, v \in V : add_record(key, pack(1, v))
    \/ \E key \in K, v \in V : update_record(key, pack(1, v))
    \/ \E key \in K : CanDelete(key, d) /\ delete_record(key)

\* ------------------------------------------------------------- specifications
\* one engine, opened once on a new file, one record content
Next == Step(Keys, {1}, MaxIds, MaxDeleted) /\ UNCHANGED <<lifo, allocs, it, app, rt>>

Spec == Init /\ [][Next]_vars

\* an engine of capacity SlotsVals with MaxVal record contents
InitVals == Construct(SlotsVals)

NextVals == Step(Keys, Vals, MaxIdsVals, MaxDeleted) /\ UNCHANGED <<lifo, allocs, it, app, rt>>

SpecVals == InitVals /\ [][NextVals]_vars

\* the same engine constructed with index capacity 4
InitCap4 == Construct(4)

NextCap4 == Step(Keys, {1}, MaxIds, MaxDeletedVals) /\ UNCHANGED <<lifo, allocs, it, app, rt>>

SpecCap4 == InitCap4 /\ [][NextCap4]_vars

\* the engine with close and reopen of its file, one record content
NextReopen ==
    /\ \/ Step(Keys, {1}, MaxIdsReopen, MaxDeleted)
       \/ close
       \/ opens < MaxOpens /\ open_existing
    /\ UNCHANGED <<lifo, allocs, it, app, rt>>

SpecReopen == Init /\ [][NextReopen]_vars

\* the magic and record size of the three tables of the application
TableKinds ==
    {[magic |-> "CUST", rsize |-> CUST_SIZE],
     [magic |-> "CARS", rsize |-> CARS_SIZE],
     [magic |-> "CONT", rsize |-> CONT_SIZE]}

\* a Cars engine constructed on the path of a file that one of the three
\* tables created
InitForeign ==
    \E kind \in TableKinds :
        /\ slots = Slots
        /\ f = "None"
        /\ exists = TRUE
        /\ h = None
        /\ file_h = Header_new(kind.magic, kind.rsize, Slots)
        /\ index = [j \in 0..(Slots - 1) |-> IndexSlot(0, 0)]
        /\ recs = <<>>
        /\ last = Call("init", "ok")
        /\ ids = <<>>
        /\ kv = <<>>
        /\ opens = 0
        /\ lifo = NoLifo
        /\ allocs = NoAllocs
        /\ it = None
        /\ customers = None
        /\ cars = None
        /\ contracts = None
        /\ out = <<>>
        /\ rt = None

\* the caller goes on to use the engine only when open() did not raise
FormatOk == last # Call("open", "bad file format")

NextForeign ==
    /\ \/ opens < MaxOpens /\ open_existing
       \/ close
       \/ FormatOk /\ Len(ids) < MaxIds /\ next_id
       \/ FormatOk /\ \E key \in Keys : add_record(key, pack(1, 1))
       \/ FormatOk /\ \E key \in Keys : update_record(key, pack(1, 1))
       \/ FormatOk /\ \E key \in Keys :
             CanDelete(key, MaxDeletedVals) /\ delete_record(key)
    /\ UNCHANGED <<lifo, allocs, it, app, rt>>

SpecForeign == InitForeign /\ [][NextForeign]_vars

\* the engine called with any key, 0 included, with close and reopen
Keys0 == 0..(slots + 1)

NextAnyKey ==
    /\ \/ Step(Keys0, {1}, MaxIdsReopen, MaxDeletedVals)
       \/ close
       \/ opens < MaxOpens /\ open_existing
    /\ UNCHANGED <<lifo, allocs, it, app, rt>>

SpecAnyKey == Init /\ [][NextAnyKey]_vars

\* an engine of capacity SlotsVals whose update and delete are also called
\* with the two reserved key values.  delete_record with the sentinel is
\* called while active_count is positive: at 0 the header it would write
\* holds -1, which Header.pack refuses
Reserved == {0, TOMBSTONE_KEY}

NextSentinel ==
    /\ \/ open_new
       \/ \E key \in Keys, v \in Vals : add_record(key, pack(1, v))
       \/ \E key \in Keys \cup Reserved, v \in Vals : update_record(key, pack(1, v))
       \/ \E key \in Keys \cup Reserved :
             /\ CanDelete(key, MaxDeleted)
             /\ f = "open" /\ h.active_count > 0
             /\ delete_record(key)
    /\ UNCHANGED <<lifo, allocs, it, app, rt>>

SpecSentinel == InitVals /\ [][NextSentinel]_vars

\* an engine of capacity SlotsVals with MaxVal record contents and one
\* iterator at a time, whose steps interleave with the engine's calls
NextIter ==
    /\ \/ open_new /\ UNCHANGED it
       \/ \E key \in Keys, v \in Vals : add_record(key, pack(1, v)) /\ UNCHANGED it
       \/ \E key \in Keys, v \in Vals : update_record(key, pack(1, v)) /\ UNCHANGED it
       \/ \E key \in Keys :
             CanDelete(key, MaxDeletedVals) /\ delete_record(key) /\ UNCHANGED it
       \/ \E kind \in {"active", "all"} : iter_new(kind)
       \/ iter_next
       \/ iter_drop
    /\ UNCHANGED <<lifo, allocs, app, rt>>

SpecIter == InitVals /\ [][NextIter]_vars

\* the engine with the count of its add calls: every add_record call runs
\* _alloc_rec_index once, before the index insert that can fail
AllocsAdd ==
    [n |-> allocs.n + 1,
     failed |-> allocs.failed + (IF last'.res = "ok" THEN 0 ELSE 1)]

NextAlloc ==
    /\ \/ open_new /\ UNCHANGED allocs
       \/ \E key \in Keys :
             allocs.n < MaxAllocs /\ add_record(key, pack(1, 1)) /\ allocs' = AllocsAdd
       \/ \E key \in Keys :
             CanDelete(key, MaxDeleted) /\ delete_record(key) /\ UNCHANGED allocs
       \/ close /\ UNCHANGED allocs
       \/ opens < MaxOpens /\ open_existing /\ UNCHANGED allocs
    /\ UNCHANGED <<lifo, it, app, rt>>

SpecAlloc == Init /\ [][NextAlloc]_vars

\* the engine with the history of its last successful deletes and adds:
\* lifo.stage counts how far the last calls are into delete, delete, add, add;
\* a and b are the record positions the two deletes freed, n the record
\* count after them, first and second the positions the two adds returned
LifoDelete(key) ==
    IF last'.res # "ok" THEN NoLifo
    ELSE LET r == lookup(index, h, key).rec_index
         IN  IF lifo.stage \in {1, 2}
             THEN [NoLifo EXCEPT !.stage = 2, !.a = lifo.b, !.b = r,
                                 !.n = records_count(recs')]
             ELSE [NoLifo EXCEPT !.stage = 1, !.b = r]

LifoAdd(key) ==
    IF last'.res # "ok" THEN NoLifo
    ELSE LET r == lookup(index', h', key).rec_index
         IN  IF lifo.stage = 2 THEN [lifo EXCEPT !.stage = 3, !.first = r]
             ELSE IF lifo.stage = 3 THEN [lifo EXCEPT !.stage = 4, !.second = r]
             ELSE NoLifo

NextLifo ==
    /\ \/ open_new /\ lifo' = NoLifo
       \/ Len(ids) < MaxIds /\ next_id /\ lifo' = NoLifo
       \/ \E key \in Keys : add_record(key, pack(1, 1)) /\ lifo' = LifoAdd(key)
       \/ \E key \in Keys : update_record(key, pack(1, 1)) /\ lifo' = NoLifo
       \/ \E key \in Keys :
             CanDelete(key, MaxDeletedLifo) /\ delete_record(key) /\ lifo' = LifoDelete(key)
    /\ UNCHANGED <<allocs, it, app, rt>>

SpecLifo == Init /\ [][NextLifo]_vars

\* ------------------------------------------------------------- the engine as a function of one table
\* a table of the application: the engine object with its file.  The
\* operations below are those of BinTable above, on a table passed as a
\* value; each returns the table it leaves and what it returned or raised
Table(n) ==
    [slots |-> n, f |-> "None", exists |-> FALSE, h |-> None, file_h |-> None,
     index |-> <<>>, recs |-> <<>>]

\* the application opens each table on its own file, so the format check of
\* an existing file passes
BinTable_open(t, magic, rsize) ==
    IF ~t.exists
    THEN [t EXCEPT !.f = "open", !.exists = TRUE,
                   !.h = Header_new(magic, rsize, t.slots),
                   !.file_h = Header_new(magic, rsize, t.slots),
                   !.index = [j \in 0..(t.slots - 1) |-> IndexSlot(0, 0)],
                   !.recs = <<>>]
    ELSE [t EXCEPT !.f = "open", !.h = t.file_h]

BinTable_close(t) == [t EXCEPT !.f = "None"]

BinTable_next_id(t) ==
    LET h1 == [t.h EXCEPT !.next_id = t.h.next_id + 1]
    IN  [t |-> [t EXCEPT !.h = h1, !.file_h = h1], res |-> t.h.next_id]

BinTable_add_record(t, key, packed) ==
    LET a == alloc_rec_index(t.h, t.recs)
        rs1 == write_raw(t.recs, a.i, packed)
        h1 == [t.h EXCEPT !.free_head = a.free_head]
        s == find_slot_for_insert(t.index, h1, key)
        h2 == [h1 EXCEPT !.active_count = h1.active_count + 1]
    IN  IF s.res = "ok"
        THEN [t |-> [t EXCEPT !.recs = rs1, !.h = h2, !.file_h = h2,
                              !.index = [t.index EXCEPT ![s.slot] = IndexSlot(key, a.i)]],
              res |-> "ok"]
        ELSE [t |-> [t EXCEPT !.recs = rs1, !.h = h1], res |-> s.res]

BinTable_read_record(t, key) == read_record(t.index, t.h, t.recs, key)

BinTable_update_record(t, key, packed) ==
    LET l == lookup(t.index, t.h, key)
    IN  IF ~l.found
        THEN [t |-> t, res |-> "not found"]
        ELSE [t |-> [t EXCEPT !.recs = write_raw(t.recs, l.rec_index, packed),
                              !.file_h = t.h],
              res |-> "ok"]

BinTable_delete_record(t, key) ==
    LET l == lookup(t.index, t.h, key)
    IN  IF ~l.found
        THEN [t |-> t, res |-> "not found"]
        ELSE LET ri == l.rec_index
                 rs1 == write_raw(t.recs, ri, [read_raw(t.recs, ri) EXCEPT !.flag = 0])
                 rs2 == write_next_free(rs1, ri, t.h.free_head)
                 sj == slot_of_key(t.index, t.h, key)
                 h1 == [t.h EXCEPT !.free_head = ri,
                                   !.active_count = t.h.active_count - 1,
                                   !.deleted_count = t.h.deleted_count + 1]
             IN  [t |-> [t EXCEPT !.recs = rs2, !.h = h1, !.file_h = h1,
                                  !.index = IF sj.found
                                            THEN [t.index EXCEPT ![sj.slot] =
                                                     IndexSlot(TOMBSTONE_KEY, 0)]
                                            ELSE t.index],
                  res |-> "ok"]

\* the records a complete iter_active loop yields, run with no other call
\* in between
BinTable_iter_active(t) ==
    {read_raw(t.recs, i) : i \in yielding("active", t.recs, 0, records_count(t.recs))}

\* ------------------------------------------------------------- the application
\* App over its three tables.  A car record is modelled by its car_id and
\* status, a contract by its rent_id, cus_id, car_id and returned, a customer
\* by its cus_id; the other fields are copied through by every command.
CAR_STATUS == 0..3      \* available, rented, maintenance, retired

Customers_pack(flag, cid) == pack(flag, [cus_id |-> cid])
Cars_pack(flag, car_id, status) == pack(flag, [car_id |-> car_id, status |-> status])
Contracts_pack(flag, rid, cus_id, car_id, returned) ==
    pack(flag, [rent_id |-> rid, cus_id |-> cus_id, car_id |-> car_id,
                returned |-> returned])

Cars_unpack(raw) ==
    [flag |-> raw.flag, car_id |-> raw.val.car_id, status |-> raw.val.status]
Contracts_unpack(raw) ==
    [flag |-> raw.flag, rent_id |-> raw.val.rent_id, cus_id |-> raw.val.cus_id,
     car_id |-> raw.val.car_id, returned |-> raw.val.returned]

\* App.__init__ on an empty data directory
InitApp ==
    /\ slots = Slots /\ f = "None" /\ exists = FALSE /\ h = None /\ file_h = None
    /\ index = <<>> /\ recs = <<>> /\ last = Call("init", "ok") /\ ids = <<>>
    /\ kv = <<>> /\ opens = 0 /\ lifo = NoLifo /\ allocs = NoAllocs /\ it = None
    /\ customers = Table(CustSlots)
    /\ cars = Table(CarsSlots)
    /\ contracts = Table(ContSlots)
    /\ out = <<>>
    /\ rt = None

Opened == customers.f = "open" /\ cars.f = "open" /\ contracts.f = "open"

App_open ==
    /\ ~Opened
    /\ customers' = BinTable_open(customers, "CUST", CUST_SIZE)
    /\ cars' = BinTable_open(cars, "CARS", CARS_SIZE)
    /\ contracts' = BinTable_open(contracts, "CONT", CONT_SIZE)
    /\ out' = <<Call("open", "ok")>>

App_close ==
    /\ Opened
    /\ customers' = BinTable_close(customers)
    /\ cars' = BinTable_close(cars)
    /\ contracts' = BinTable_close(contracts)
    /\ out' = <<Call("close", "ok")>>

\* the commands, with valid input; a command that raises is caught by the
\* menu loop, which goes on with the next command
add_customer ==
    /\ Opened
    /\ LET n == BinTable_next_id(customers)
           a == BinTable_add_record(n.t, n.res, Customers_pack(1, n.res))
       IN  /\ customers' = a.t
           /\ out' = IF a.res = "ok"
                     THEN <<Call("customers.add_record", "ok"), Call("print", "+ customer")>>
                     ELSE <<Call("customers.add_record", a.res)>>
    /\ UNCHANGED <<cars, contracts>>

add_car(stat) ==
    /\ Opened
    /\ LET n == BinTable_next_id(cars)
           a == BinTable_add_record(n.t, n.res, Cars_pack(1, n.res, stat))
       IN  /\ cars' = a.t
           /\ out' = IF a.res = "ok"
                     THEN <<Call("cars.add_record", "ok"), Call("print", "+ car")>>
                     ELSE <<Call("cars.add_record", a.res)>>
    /\ UNCHANGED <<customers, contracts>>

\* mutant: the car is set to rented before the contract is inserted
add_contract_car_first(cus_id, car_id) ==
    /\ Opened
    /\ LET car_raw == BinTable_read_record(cars, car_id)
           car == Cars_unpack(car_raw)
           n == BinTable_next_id(contracts)
           a == BinTable_add_record(n.t, n.res,
                                    Contracts_pack(1, n.res, cus_id, car_id, 0))
           u == BinTable_update_record(cars, car_id, Cars_pack(1, car.car_id, 1))
       IN  IF car_raw = None
           THEN /\ out' = <<Call("print", "! car not found")>>
                /\ UNCHANGED <<cars, contracts>>
           ELSE IF car.status # 0
           THEN /\ out' = <<Call("print", "! car not available")>>
                /\ UNCHANGED <<cars, contracts>>
           ELSE IF BinTable_read_record(customers, cus_id) = None
           THEN /\ out' = <<Call("print", "! customer not found")>>
                /\ UNCHANGED <<cars, contracts>>
           ELSE /\ cars' = u.t
                /\ contracts' = a.t
                /\ out' = IF a.res # "ok"
                          THEN <<Call("cars.update_record", u.res),
                                 Call("contracts.add_record", a.res)>>
                          ELSE <<Call("cars.update_record", u.res),
                                 Call("contracts.add_record", "ok"),
                                 Call("print", "+ contract")>>
    /\ UNCHANGED customers

add_contract(cus_id, car_id) ==
    /\ Opened
    /\ LET car_raw == BinTable_read_record(cars, car_id)
           car == Cars_unpack(car_raw)
           n == BinTable_next_id(contracts)
           a == BinTable_add_record(n.t, n.res,
                                    Contracts_pack(1, n.res, cus_id, car_id, 0))
           u == BinTable_update_record(cars, car_id, Cars_pack(1, car.car_id, 1))
       IN  IF car_raw = None
           THEN /\ out' = <<Call("print", "! car not found")>>
                /\ UNCHANGED <<cars, contracts>>
           ELSE IF car.status # 0
           THEN /\ out' = <<Call("print", "! car not available")>>
                /\ UNCHANGED <<cars, contracts>>
           ELSE IF BinTable_read_record(customers, cus_id) = None
           THEN /\ out' = <<Call("print", "! customer not found")>>
                /\ UNCHANGED <<cars, contracts>>
           ELSE IF a.res # "ok"
           THEN /\ contracts' = a.t
                /\ out' = <<Call("contracts.add_record", a.res)>>
                /\ UNCHANGED cars
           ELSE /\ contracts' = a.t
                /\ cars' = u.t
                /\ out' = <<Call("contracts.add_record", "ok"),
                            Call("cars.update_record", u.res),
                            Call("print", "+ contract")>>
    /\ UNCHANGED customers

\* some contract the active iteration yields is of this car and not returned
has_open(car_id) ==
    \E rawc \in BinTable_iter_active(contracts) :
        LET cc == Contracts_unpack(rawc)
        IN  cc.car_id = car_id /\ cc.returned = 0

\* mutant: the open-contract check runs before the record is stored
update_car_checks_first(car_id, stat) ==
    /\ Opened
    /\ LET raw == BinTable_read_record(cars, car_id)
           u == BinTable_update_record(cars, car_id, Cars_pack(1, car_id, stat))
       IN  IF raw = None
           THEN /\ out' = <<Call("print", "! car not found")>>
                /\ UNCHANGED cars
           ELSE IF stat = 3 /\ has_open(car_id)
           THEN /\ out' = <<Call("print", "! open contract, retired not allowed")>>
                /\ UNCHANGED cars
           ELSE /\ cars' = u.t
                /\ out' = <<Call("cars.update_record", u.res), Call("print", "* car updated")>>
    /\ UNCHANGED <<customers, contracts>>

update_car(car_id, stat) ==
    /\ Opened
    /\ LET raw == BinTable_read_record(cars, car_id)
           u == BinTable_update_record(cars, car_id, Cars_pack(1, car_id, stat))
       IN  IF raw = None
           THEN /\ out' = <<Call("print", "! car not found")>>
                /\ UNCHANGED cars
           ELSE /\ cars' = u.t
                /\ out' = <<Call("cars.update_record", u.res), Call("print", "* car updated")>>
                          \o (IF stat = 3 /\ has_open(car_id)
                              THEN <<Call("print", "! open contract, retired not allowed")>>
                              ELSE <<>>)
    /\ UNCHANGED <<customers, contracts>>

\* car is a local variable of return_car that is read before the statement
\* that assigns it
return_car(rid, ret_ok) ==
    /\ Opened
    /\ LET raw == BinTable_read_record(contracts, rid)
       IN  out' = IF raw = None THEN <<Call("print", "! contract not found")>>
                  ELSE IF Contracts_unpack(raw).returned = 1
                       THEN <<Call("print", "! contract closed")>>
                  ELSE IF ~ret_ok THEN <<Call("print", "! bad date")>>
                  ELSE <<Call("car", "UnboundLocalError")>>
    /\ UNCHANGED <<customers, cars, contracts>>

delete_customer(cid) ==
    /\ Opened
    /\ LET d == BinTable_delete_record(customers, cid)
       IN  /\ customers' = d.t
           /\ out' = <<Call("customers.delete_record", d.res)>>
    /\ UNCHANGED <<cars, contracts>>

\* mutant: the car is deleted whatever its status
delete_car_any_status(car_id) ==
    /\ Opened
    /\ LET raw == BinTable_read_record(cars, car_id)
           d == BinTable_delete_record(cars, car_id)
       IN  IF raw = None
           THEN /\ out' = <<Call("print", "! car not found")>>
                /\ UNCHANGED cars
           ELSE /\ cars' = d.t
                /\ out' = <<Call("cars.delete_record", d.res)>>
    /\ UNCHANGED <<customers, contracts>>

delete_car(car_id) ==
    /\ Opened
    /\ LET raw == BinTable_read_record(cars, car_id)
           d == BinTable_delete_record(cars, car_id)
       IN  IF raw = None
           THEN /\ out' = <<Call("print", "! car not found")>>
                /\ UNCHANGED cars
           ELSE IF Cars_unpack(raw).status = 1
           THEN /\ out' = <<Call("print", "! car is rented")>>
                /\ UNCHANGED cars
           ELSE /\ cars' = d.t
                /\ out' = <<Call("cars.delete_record", d.res)>>
    /\ UNCHANGED <<customers, contracts>>

delete_contract(rid) ==
    /\ Opened
    /\ LET d == BinTable_delete_record(contracts, rid)
       IN  /\ contracts' = d.t
           /\ out' = <<Call("contracts.delete_record", d.res)>>
    /\ UNCHANGED <<customers, cars>>

\* the ids a command is given: those a table has handed out, and one more
Ids(t) == 1..t.h.next_id

\* deleted_count of a table is counted up to MaxAppDeleted
MayDelete(t, key) ==
    lookup(t.index, t.h, key).found => t.h.deleted_count < MaxAppDeleted

\* the engine variables of the single-table specifications
engine == <<slots, f, exists, h, file_h, index, recs, last, ids, kv, opens, lifo,
            allocs, it>>

NextApp ==
    /\ \/ App_open
       \/ App_close
       \/ Opened /\ customers.h.next_id <= MaxCustIds /\ add_customer
       \/ \E stat \in CAR_STATUS : Opened /\ cars.h.next_id <= MaxCarIds /\ add_car(stat)
       \/ Opened /\ contracts.h.next_id <= MaxContIds
             /\ \E cus_id \in Ids(customers), car_id \in Ids(cars) :
                   add_contract(cus_id, car_id)
       \/ Opened /\ \E car_id \in Ids(cars), stat \in CAR_STATUS : update_car(car_id, stat)
       \/ Opened /\ \E rid \in Ids(contracts), ret_ok \in BOOLEAN : return_car(rid, ret_ok)
       \/ Opened /\ \E cid \in Ids(customers) :
             MayDelete(customers, cid) /\ delete_customer(cid)
       \/ Opened /\ \E car_id \in Ids(cars) : MayDelete(cars, car_id) /\ delete_car(car_id)
       \/ Opened /\ \E rid \in Ids(contracts) :
             MayDelete(contracts, rid) /\ delete_contract(rid)
    /\ UNCHANGED <<engine, rt>>

SpecApp == InitApp /\ [][NextApp]_vars

\* ------------------------------------------------------------- the seeding tool's engine
\* seed_sample_data.py carries its own BinTable; its insert probe returns at
\* the first slot that is empty or holds the key, and passes over everything
\* else, tombstones included
RECURSIVE seed_find_slot_scan(_, _, _, _)
seed_find_slot_scan(idx, hd, key, i) ==
    IF i >= hd.index_slots
    THEN [res |-> "index full", slot |-> -1]
    ELSE LET j == (hash(hd, key) + i) % hd.index_slots
             sl == idx[j]
         IN  IF sl.key = 0
             THEN [res |-> "ok", slot |-> j]
             ELSE IF sl.key = key
                  THEN [res |-> "duplicate key", slot |-> -1]
                  ELSE seed_find_slot_scan(idx, hd, key, i + 1)

seed_find_slot(idx, hd, key) == seed_find_slot_scan(idx, hd, key, 0)

seed_alloc(hd, rs) ==
    IF hd.free_head # -1
    THEN [i |-> hd.free_head, free_head |-> rs[hd.free_head + 1].next_free]
    ELSE [i |-> records_count(rs), free_head |-> hd.free_head]

\* the seeding tool's add_record, as a step on the same file
seed_add_record(key, packed) ==
    /\ f = "open"
    /\ LET a == seed_alloc(h, recs)
           rs1 == write_raw(recs, a.i, packed)
           h1 == [h EXCEPT !.free_head = a.free_head]
           s == seed_find_slot(index, h1, key)
       IN  /\ a.i < MaxRecs
           /\ recs' = rs1
           /\ IF s.res = "ok"
              THEN /\ index' = [index EXCEPT ![s.slot] = IndexSlot(key, a.i)]
                   /\ h' = [h1 EXCEPT !.active_count = h1.active_count + 1]
                   /\ file_h' = h'
                   /\ kv' = (key :> packed) @@ kv
              ELSE /\ h' = h1
                   /\ UNCHANGED <<index, file_h, kv>>
           /\ last' = Call("add", s.res)
    /\ UNCHANGED <<slots, f, exists, ids, opens>>

\* ------------------------------------------------------------- record formats
\* A text is a sequence of characters, a packed field a sequence of bytes.
\* The characters: an ASCII letter, the space, the NUL character, a two-byte
\* and a three-byte character, and a lone surrogate, which
\* str.encode('utf-8', 'ignore') drops
Chars == {"a", "sp", "NUL", "e_acute", "ko_kai", "surrogate"}

UTF8(c) ==
    CASE c = "a" -> <<97>>
      [] c = "sp" -> <<32>>
      [] c = "NUL" -> <<0>>
      [] c = "e_acute" -> <<195, 169>>
      [] c = "ko_kai" -> <<224, 184, 129>>
      [] c = "surrogate" -> <<>>

RECURSIVE encode(_)
encode(s) == IF s = <<>> THEN <<>> ELSE UTF8(Head(s)) \o encode(Tail(s))

ljust(b, n) == IF Len(b) >= n THEN b ELSE b \o [i \in 1..(n - Len(b)) |-> 0]

\* mutant: the text is cut one byte before the field's width
fit_one_short(s, n) ==
    LET b == encode(s)
    IN  ljust(SubSeq(b, 1, IF Len(b) < n - 1 THEN Len(b) ELSE n - 1), n)

\* fit: the first n bytes of the encoded text, padded with NUL bytes to n
fit(s, n) ==
    LET b == encode(s)
    IN  ljust(SubSeq(b, 1, IF Len(b) < n THEN Len(b) ELSE n), n)

RECURSIVE rstrip(_)
rstrip(b) ==
    IF b # <<>> /\ b[Len(b)] = 0 THEN rstrip(SubSeq(b, 1, Len(b) - 1)) ELSE b

\* bytes.decode('utf-8', 'ignore') from byte i on: a complete character is
\* decoded, a byte that starts no complete character is dropped
RECURSIVE decode(_, _)
decode(b, i) ==
    IF i > Len(b) THEN <<>>
    ELSE LET m == {c \in Chars : /\ UTF8(c) # <<>>
                                 /\ i + Len(UTF8(c)) - 1 <= Len(b)
                                 /\ SubSeq(b, i, i + Len(UTF8(c)) - 1) = UTF8(c)}
         IN  IF m = {} THEN decode(b, i + 1)
             ELSE LET c == CHOOSE x \in m : TRUE
                  IN  <<c>> \o decode(b, i + Len(UTF8(c)))

\* dec, the lambda of the unpack methods
dec(b) == decode(rstrip(b), 1)

\* an unsigned integer of n bytes, little-endian, as struct packs it
Pow256(i) == CASE i = 0 -> 1 [] i = 1 -> 256 [] i = 2 -> 65536 [] i = 3 -> 16777216
uint(x, n) == [i \in 1..n |-> (x \div Pow256(i - 1)) % 256]
RECURSIVE un_uint(_)
un_uint(b) ==
    IF b = <<>> THEN 0 ELSE b[1] + 256 * un_uint(Tail(b))

\* the fields of the three record formats: name (as unpack returns it), type
\* and byte width; the x bytes at the end of each format are padding
Fld(name, type, n) == [name |-> name, type |-> type, n |-> n]
CUST_FMT ==
    <<Fld("flag", "B", 1), Fld("cus_id", "I", 4), Fld("id_card", "s", 13),
      Fld("name", "s", 50), Fld("phone", "s", 10), Fld("birth_ymd", "I", 4),
      Fld("gender", "B", 1)>>
CARS_FMT ==
    <<Fld("flag", "B", 1), Fld("car_id", "I", 4), Fld("license", "s", 12),
      Fld("brand", "s", 12), Fld("model", "s", 16), Fld("year", "H", 2),
      Fld("rate_cents", "I", 4), Fld("odometer_km", "I", 4), Fld("status", "B", 1),
      Fld("updated_at", "I", 4)>>
CONT_FMT ==
    <<Fld("flag", "B", 1), Fld("rent_id", "I", 4), Fld("cus_id", "I", 4),
      Fld("car_id", "I", 4), Fld("rent_ymd", "I", 4), Fld("return_ymd", "I", 4),
      Fld("total_cents", "I", 4), Fld("returned", "B", 1)>>

Formats == {CUST_FMT, CARS_FMT, CONT_FMT}
FieldsOf(fmt) == {fmt[i] : i \in 1..Len(fmt)}
NamesOf(fmt) == {fd.name : fd \in FieldsOf(fmt)}
FieldOf(fmt, name) == CHOOSE fd \in FieldsOf(fmt) : fd.name = name

\* Customers.pack / Cars.pack / Contracts.pack: text fields go through fit,
\* then struct.pack lays every field out at its width
pack_record(fmt, v) ==
    [name \in NamesOf(fmt) |->
        LET fd == FieldOf(fmt, name)
        IN  IF fd.type = "s" THEN fit(v[name], fd.n) ELSE uint(v[name], fd.n)]

\* Customers.unpack / Cars.unpack / Contracts.unpack
unpack_record(fmt, raw) ==
    [name \in NamesOf(fmt) |->
        LET fd == FieldOf(fmt, name)
        IN  IF fd.type = "s" THEN dec(raw[name]) ELSE un_uint(raw[name])]

\* the values handed to pack: one text field holds the text s, the other
\* text fields a one-letter text, and every integer field the smallest or the
\* largest value its width holds (for a 4-byte field the largest value
\* written here is 2^31 - 1)
Rep(c, n) == [i \in 1..n |-> c]
Tails == UNION {[1..k -> Chars] : k \in 0..MaxTail}
Texts == {Rep(c, n) \o t : c \in Chars, n \in 0..MaxRun, t \in Tails}
MaxOf(type) == CASE type = "B" -> 255 [] type = "H" -> 65535 [] type = "I" -> 2147483647
TextNames(fmt) == {fd.name : fd \in {x \in FieldsOf(fmt) : x.type = "s"}}

Value(fmt, target, s, hi) ==
    [name \in NamesOf(fmt) |->
        LET fd == FieldOf(fmt, name)
        IN  IF fd.type = "s" THEN (IF name = target THEN s ELSE <<"a">>)
            ELSE IF hi THEN MaxOf(fd.type) ELSE 0]

Inputs ==
    {[fmt |-> fmt, v |-> Value(fmt, target, s, hi)] :
        fmt \in Formats, target \in TextNames(CUST_FMT) \cup TextNames(CARS_FMT),
        s \in Texts, hi \in BOOLEAN}

InitPack ==
    /\ slots = Slots /\ f = "None" /\ exists = FALSE /\ h = None /\ file_h = None
    /\ index = <<>> /\ recs = <<>> /\ last = Call("init", "ok") /\ ids = <<>>
    /\ kv = <<>> /\ opens = 0 /\ lifo = NoLifo /\ allocs = NoAllocs /\ it = None
    /\ customers = None /\ cars = None /\ contracts = None /\ out = <<>>
    /\ \E x \in Inputs : rt = [fmt |-> x.fmt, v |-> x.v, raw |-> None, back |-> None]

\* the value is packed into the bytes of a record
do_pack ==
    /\ rt.raw = None
    /\ rt' = [rt EXCEPT !.raw = pack_record(rt.fmt, rt.v)]

\* the bytes are unpacked again
do_unpack ==
    /\ rt.raw # None
    /\ rt.back = None
    /\ rt' = [rt EXCEPT !.back = unpack_record(rt.fmt, rt.raw)]

NextPack == (do_pack \/ do_unpack) /\ UNCHANGED <<engine, app>>

SpecPack == InitPack /\ [][NextPack]_vars

\* ------------------------------------------------------------- vocabulary of the properties
SlotNos == DOMAIN index
IsEmpty(j) == index[j].key = 0
IsTomb(j) == index[j].key = TOMBSTONE_KEY
IsLive(j) == ~IsEmpty(j) /\ ~IsTomb(j)
SlotsOf(k) == {j \in SlotNos : index[j].key = k}
LiveKeys == DOMAIN kv
\* how many probes key k's sequence needs to reach slot j
Dist(k, j) == (j - hash(h, k) + h.index_slots) % h.index_slots
\* some tombstone lies on k's probe sequence before slot j
TombBefore(k, j) == \E t \in SlotNos : IsTomb(t) /\ Dist(k, t) < Dist(k, j)
read(k) == read_record(index, h, recs, k)
\* record position i holds a flag-1 record that no live index slot designates
Orphan(i) ==
    /\ i < records_count(recs)
    /\ read_raw(recs, i).flag = 1
    /\ \A j \in SlotNos : IsLive(j) => index[j].rec_index # i

\* the positions met from position p on by following the next-free values,
\* for at most n steps
RECURSIVE ChainFrom(_, _, _)
ChainFrom(rs, p, n) ==
    IF n = 0 \/ p < 0 \/ p >= records_count(rs) THEN {}
    ELSE {p} \cup ChainFrom(rs, read_raw(rs, p).next_free, n - 1)
\* the free list of header hd over the records rs
FreeList(hd, rs) == ChainFrom(rs, hd.free_head, records_count(rs))

\* ------------------------------------------------------------- properties

\* the index of a capacity-4 table after add 1, 2, 3, 4 and delete 2
C1_Scenario ==
    /\ f = "open"
    /\ h.index_slots = 4
    /\ index[1].key = 1 /\ index[2].key = TOMBSTONE_KEY
    /\ index[3].key = 3 /\ index[0].key = 4
    /\ LiveKeys = {1, 3, 4}

\* C1: in a capacity-4 table, after add of keys 1, 2, 3, 4 and delete(2),
\* add(5) succeeds and stores key 5 in the slot key 2 occupied; afterwards
\* read(5) returns the record passed to add(5) and read(2) returns not-found.
C1_TombstoneReuseScenario ==
    [][\A v \in Vals :
          (C1_Scenario /\ add_record(5, pack(1, v)))
              => /\ last'.res = "ok"
                 /\ index'[2].key = 5
                 /\ read_record(index', h', recs', 5) = pack(1, v)
                 /\ read_record(index', h', recs', 2) = None]_vars

\* C2: an add of a valid key that is not live fails with index-full only if
\* no index slot is empty and no index slot is a tombstone.
C2_FullOnlyWithoutFreeSlot ==
    [][\A k \in Keys, v \in Vals :
          (k \notin LiveKeys /\ add_record(k, pack(1, v)) /\ last'.res = "index full")
              => \A j \in SlotNos : IsLive(j)]_vars

\* C3: with no deletion since the table was created, an add of a key that is
\* not live succeeds while fewer than index_slots keys are stored, and fails
\* with index-full once index_slots keys are stored.
C3_FullAfterIndexSlotsAdds ==
    [][\A k \in Keys, v \in Vals :
          (f = "open" /\ h.deleted_count = 0 /\ k \notin LiveKeys
           /\ add_record(k, pack(1, v)))
              => last'.res = IF Cardinality(LiveKeys) < h.index_slots
                             THEN "ok" ELSE "index full"]_vars

C3_Witness ==
    /\ last = Call("add", "index full")
    /\ h.deleted_count = 0
    /\ Cardinality(LiveKeys) = h.index_slots
    /\ \E k \in LiveKeys : index[hash(h, k)].key # k

\* C4: no two index slots hold the same live key.
C4_Uniqueness ==
    f = "open" =>
        \A i, j \in SlotNos : (i # j /\ IsLive(i)) => index[i].key # index[j].key

\* a key stored again behind the tombstone its deletion left, after a
\* duplicate add of it was refused
C4_Witness ==
    /\ last = Call("add", "duplicate key")
    /\ \E j \in SlotNos : IsLive(j) /\ TombBefore(index[j].key, j)
    /\ Cardinality({j \in SlotNos : IsLive(j)}) >= 2

\* C5: add of a key that is live fails with duplicate-key, also when
\* tombstones precede the key's slot in its probe sequence, and leaves the
\* index, active_count and deleted_count unchanged.
C5_DuplicateKey ==
    [][\A k \in Keys, v \in Vals :
          (k \in LiveKeys /\ add_record(k, pack(1, v)))
              => /\ last'.res = "duplicate key"
                 /\ index' = index
                 /\ h'.active_count = h.active_count
                 /\ h'.deleted_count = h.deleted_count
                 /\ file_h'.active_count = file_h.active_count
                 /\ file_h'.deleted_count = file_h.deleted_count]_vars

\* the refused add was of the only live key, which sits behind a tombstone
C5_Witness ==
    /\ last = Call("add", "duplicate key")
    /\ \E k \in Keys :
          /\ LiveKeys = {k}
          /\ \E j \in SlotsOf(k) : TombBefore(k, j)

C7_TombstoneProbing ==
    [][\A a, b \in Keys :
          (/\ a # b /\ a \in LiveKeys /\ b \in LiveKeys
           /\ \E ja \in SlotsOf(a), jb \in SlotsOf(b) : Dist(b, ja) < Dist(b, jb)
           /\ delete_record(a) /\ last'.res = "ok")
              => read_record(index', h', recs', b) = kv[b]]_vars

\* C10: update and delete of a valid key that is not live fail with
\* not-found and leave the index, the records and both headers unchanged.
C10_NotFoundNoChange ==
    [][\A k \in Keys :
          (/\ k \notin LiveKeys
           /\ \/ \E v \in Vals : update_record(k, pack(1, v))
              \/ delete_record(k))
              => /\ last'.res = "not found"
                 /\ UNCHANGED <<index, recs, h, file_h>>]_vars

\* a refused update on a table that holds a tombstone and a never-used slot
C10_Witness ==
    /\ last = Call("update", "not found")
    /\ \E j \in SlotNos : IsTomb(j)
    /\ \E j \in SlotNos : IsEmpty(j)
    /\ Cardinality(LiveKeys) < slots

\* C8: after delete(A), delete(B) and two successful adds with no other call
\* in between, the first add stored its record where B was and the second
\* where A was, and the record count did not grow.
C8_FreeListLifo ==
    /\ lifo.stage >= 3 => (lifo.first = lifo.b /\ records_count(recs) = lifo.n)
    /\ lifo.stage = 4 => lifo.second = lifo.a

C8_Witness ==
    /\ lifo.stage = 4
    /\ lifo.a # lifo.b
    /\ lifo.first = lifo.b
    /\ lifo.second = lifo.a

\* C9: the values next_id() returns start at 1 and are strictly increasing,
\* across failed adds and close followed by reopen.
C9_NextIdNeverReused ==
    /\ Len(ids) > 0 => ids[1] = 1
    /\ \A i, j \in 1..Len(ids) : i < j => ids[i] < ids[j]

\* an id handed out in the second session or later, the header cache having
\* differed from the stored header after a failed add
C9_Witness ==
    /\ last = Call("next_id", "ok")
    /\ opens >= 2
    /\ Len(ids) >= 2
    /\ \E i \in 0..(MaxRecs - 1) : Orphan(i)

\* C11: a successful delete(key) of a live key whose record is at position r
\* sets record r's flag to 0, stores the previous free_head in record r's
\* next-free field, sets free_head to r, turns the key's index slot into a
\* tombstone, decrements active_count and increments deleted_count by one;
\* no other index slot and no other record changes.
C11_DeleteEffect ==
    [][\A k \in Keys :
          (f = "open" /\ lookup(index, h, k).found /\ delete_record(k))
              => LET r == lookup(index, h, k).rec_index
                     j == CHOOSE s \in SlotsOf(k) : TRUE
                 IN  /\ last'.res = "ok"
                     /\ read_raw(recs', r) = [read_raw(recs, r) EXCEPT
                                                 !.flag = 0, !.next_free = h.free_head]
                     /\ h'.free_head = r
                     /\ index'[j].key = TOMBSTONE_KEY
                     /\ h'.active_count = h.active_count - 1
                     /\ h'.deleted_count = h.deleted_count + 1
                     /\ \A s \in SlotNos \ {j} : index'[s] = index[s]
                     /\ records_count(recs') = records_count(recs)
                     /\ \A i \in 0..(records_count(recs) - 1) :
                           i # r => read_raw(recs', i) = read_raw(recs, i)]_vars

\* the second record pushed on the free list, other keys staying live
C11_Witness ==
    /\ last = Call("delete", "ok")
    /\ h.free_head # -1
    /\ read_raw(recs, h.free_head).flag = 0
    /\ read_raw(recs, h.free_head).next_free \notin {-1, h.free_head}
    /\ h.deleted_count = 2
    /\ LiveKeys # {}

\* C12: a successful update(key, record) replaces only the record at the
\* position the key's index slot designates; every index slot, every other
\* record and the header (next_id, active_count, deleted_count, free_head,
\* index_slots) are unchanged, and the header is what the call stores.
C12_UpdateFrame ==
    [][\A k \in Keys, v \in Vals :
          (f = "open" /\ lookup(index, h, k).found /\ update_record(k, pack(1, v)))
              => LET r == index[CHOOSE s \in SlotsOf(k) : TRUE].rec_index
                 IN  /\ last'.res = "ok"
                     /\ read_raw(recs', r) = pack(1, v)
                     /\ index' = index
                     /\ records_count(recs') = records_count(recs)
                     /\ \A i \in 0..(records_count(recs) - 1) :
                           i # r => read_raw(recs', i) = read_raw(recs, i)
                     /\ h' = h
                     /\ file_h' = h]_vars

\* a record replaced by another content, next to a live record, a deleted
\* record and a record left by a failed add
C12_Witness ==
    /\ last = Call("update", "ok")
    /\ \E k \in LiveKeys : read(k) = pack(1, 2)
    /\ \E k \in LiveKeys : read(k) = pack(1, 1)
    /\ h.deleted_count > 0
    /\ \E i \in 0..(MaxRecs - 1) : Orphan(i)

\* C13: when add fails at the index insert (duplicate key or index full), the
\* record position it allocated keeps the bytes just written, is designated
\* by no live index slot and is not on the free list afterwards, and
\* active_count and deleted_count are unchanged.  (It holds while the file
\* has not been reopened; after a failed add, close and open, the engine
\* starts from the free_head left in the file.)
C13_FailedAddOrphan ==
    [][\A k \in Keys, v \in Vals :
          (f = "open" /\ add_record(k, pack(1, v)) /\ last'.res # "ok")
              => LET i == alloc_rec_index(h, recs).i
                 IN  /\ last'.res \in {"duplicate key", "index full"}
                     /\ read_raw(recs', i) = pack(1, v)
                     /\ \A j \in SlotNos :
                           (index'[j].key \notin {0, TOMBSTONE_KEY}) => index'[j].rec_index # i
                     /\ i \notin FreeList(h', recs')
                     /\ h'.active_count = h.active_count
                     /\ h'.deleted_count = h.deleted_count]_vars

\* C14: after every call of next_id, add, update or delete that returns
\* successfully, the header stored in the file equals the in-memory header,
\* so a close and reopen at that point reloads the same header.
C14_HeaderStored ==
    (last.res = "ok" /\ last.op \in {"next_id", "add", "update", "delete"})
        => file_h = h

\* a successful update in the second session, after an add that failed
C14_Witness ==
    /\ last = Call("update", "ok")
    /\ opens = 2
    /\ file_h = h
    /\ h.deleted_count > 0
    /\ \E i \in 0..(MaxRecs - 1) : Orphan(i)

\* C15: close followed by open on the same file yields the same next_id,
\* active_count and deleted_count and, for every key, the same read result
\* (the same record or not-found) as before the close.
C15_ReopenSame ==
    [][/\ close => UNCHANGED <<h, file_h, index, recs>>
       /\ (f = "None" /\ exists /\ open_existing)
              => /\ last'.res = "ok"
                 /\ h'.next_id = h.next_id
                 /\ h'.active_count = h.active_count
                 /\ h'.deleted_count = h.deleted_count
                 /\ \A k \in Keys : read_record(index', h', recs', k)
                                       = read_record(index, h, recs, k)]_vars

\* a file reopened after successful calls only: an id taken, a key live, a
\* key deleted
C15_Witness ==
    /\ last = Call("open", "ok")
    /\ opens = 2
    /\ h.next_id > 1
    /\ h.deleted_count > 0
    /\ h.active_count = Cardinality(LiveKeys)
    /\ \E k \in LiveKeys : read(k) = kv[k]
    /\ \E k \in Keys \ LiveKeys : read(k) = None
    /\ \A i \in 0..(MaxRecs - 1) : ~Orphan(i)

\* C16: open() on a path that does not exist creates a table whose header
\* has next_id = 1, free_head = -1, active_count = 0, deleted_count = 0 and
\* index_slots equal to the configured capacity, whose index slots are all
\* empty and which holds zero records, so read of any key returns not-found.
C16_FreshTable ==
    [][(f = "None" /\ ~exists /\ open_new)
          => /\ last'.res = "ok"
             /\ exists'
             /\ h'.next_id = 1
             /\ h'.free_head = -1
             /\ h'.active_count = 0
             /\ h'.deleted_count = 0
             /\ h'.index_slots = slots
             /\ file_h' = h'
             /\ DOMAIN index' = 0..(slots - 1)
             /\ \A j \in DOMAIN index' : index'[j].key = 0
             /\ records_count(recs') = 0
             /\ \A k \in Keys : read_record(index', h', recs', k) = None]_vars

\* the table right after it was created
C16_Witness ==
    /\ last = Call("open", "ok")
    /\ opens = 1
    /\ exists
    /\ f = "open"
    /\ Cardinality(DOMAIN index) = slots

\* C17: open() on an existing file whose header magic differs from the
\* engine's table kind, or whose record_size differs from the engine's
\* record size, fails with a format error and does not modify the file.
C17_BadFormatRejected ==
    [][(/\ f = "None" /\ exists
        /\ file_h.magic # "CARS" \/ file_h.record_size # CARS_SIZE
        /\ open_existing)
          => /\ last'.res = "bad file format"
             /\ UNCHANGED <<exists, file_h, index, recs>>]_vars

\* a customers file, which has the record size of a cars file, refused
C17_Witness ==
    /\ last = Call("open", "bad file format")
    /\ file_h.magic = "CUST"
    /\ file_h.record_size = CARS_SIZE

\* C18: after any sequence of add and delete calls, including add calls that
\* fail after allocating a record position, active_count + deleted_count
\* equals the number of record-position allocations performed so far.
C18_AllocationsCounted ==
    h # None => h.active_count + h.deleted_count = allocs.n

\* C18, amended: active_count + deleted_count equals the number of
\* allocations made by add calls that succeeded; an add that fails after
\* allocating a record position is not counted.
C18_SuccessfulAddsCounted ==
    h # None => h.active_count + h.deleted_count = allocs.n - allocs.failed

\* fresh positions, a reused position and failed adds, across a reopen
C18_Witness ==
    /\ f = "open"
    /\ opens = 2
    /\ allocs.failed >= 2
    /\ h.deleted_count = 2
    /\ h.active_count >= 2
    /\ records_count(recs) < allocs.n - allocs.failed

\* add of key 0 is refused and leaves the index as it was
AddOfKey0Refused ==
    \A v \in Vals : add_record(0, pack(1, v)) => (last'.res # "ok" /\ index' = index)

\* the ids next_id() has returned
Issued == {ids[n] : n \in 1..Len(ids)}

\* C19: in every reachable state, whatever key values callers pass to add,
\* every live key stored in the index lies in 1..next_id-1, and key 0 is
\* never stored as a live key.
C19_KeySpace ==
    /\ [](h # None => \A j \in SlotNos :
                         IsLive(j) => index[j].key \in 1..(h.next_id - 1))
    /\ [][AddOfKey0Refused]_vars

\* C19, amended: every live key that next_id() returned lies in
\* 1..next_id-1, so the index holds keys of 1..next_id-1 only as long as
\* callers pass to add the keys they got from next_id(); key 0 is never
\* stored as a live key, whatever keys callers pass.
C19_IssuedKeySpace ==
    /\ [](h # None => \A j \in SlotNos :
                         (IsLive(j) /\ index[j].key \in Issued)
                             => index[j].key \in 1..(h.next_id - 1))
    /\ [][AddOfKey0Refused]_vars

\* the first add made on the table was of key 0 and failed; later, in the
\* second session, both ids handed out are live keys
C19_Witness ==
    /\ f = "open"
    /\ opens = 2
    /\ h.deleted_count = 0
    /\ Orphan(0)
    /\ Len(ids) = 2
    /\ Issued \subseteq LiveKeys

\* what an iteration of the given kind yields of the records rs, in order
RECURSIVE Snapshot(_, _, _)
Snapshot(kind, rs, i) ==
    IF i >= records_count(rs) THEN <<>>
    ELSE IF yields(kind, read_raw(rs, i))
         THEN <<(<<i, read_raw(rs, i)>>)>> \o Snapshot(kind, rs, i + 1)
         ELSE Snapshot(kind, rs, i + 1)

\* C20: an iteration (active-only or all) visits record positions 0..N-1 in
\* strictly ascending order, where N is the record count when the iteration
\* is started, and what it yields is a snapshot of that moment: an add,
\* update or delete performed between two steps of the iteration changes
\* neither which records are yielded nor their contents.
C20_IterationSnapshot ==
    (it # None /\ it.started) =>
        LET all == Snapshot(it.kind, it.snap, 0)
        IN  /\ it.n = records_count(it.snap)
            /\ \A a, b \in 1..Len(it.out) : a < b => it.out[a][1] < it.out[b][1]
            /\ \A a \in 1..Len(it.out) : it.out[a][1] \in 0..(it.n - 1)
            /\ Len(it.out) <= Len(all)
            /\ it.out = SubSeq(all, 1, Len(it.out))
            /\ it.done => it.out = all


\* C21: the seeding tool's add_record and the application's add_record have
\* the same semantics: in every state the application's engine reaches,
\* tombstones included, and for every key and record, both return the same
\* outcome (success, duplicate key or index full) and leave the same index,
\* records and headers.
C21_SeedAddSame ==
    [][\A k \in Keys, v \in Vals :
          add_record(k, pack(1, v)) => seed_add_record(k, pack(1, v))]_vars


\* the status stored for a car id, -1 when read reports not-found
StoredStatus(t, car_id) ==
    LET raw == BinTable_read_record(t, car_id)
    IN  IF raw = None THEN -1 ELSE Cars_unpack(raw).status

\* C22: the application's delete_car never deletes a car whose stored status
\* is rented: the cars table is left as it was, so the car stays live and
\* readable; the engine's delete_record called with that car's key succeeds
\* and the key reads not-found afterwards.
C22_RentedCarKept ==
    [][cars.h # None =>
          \A car_id \in Ids(cars) :
              StoredStatus(cars, car_id) = 1
                  => /\ delete_car(car_id)
                        => /\ cars' = cars
                           /\ StoredStatus(cars', car_id) = 1
                           /\ out' = <<Call("print", "! car is rented")>>
                     /\ LET d == BinTable_delete_record(cars, car_id)
                        IN  /\ d.res = "ok"
                            /\ BinTable_read_record(d.t, car_id) = None]_vars

\* the deletion of a car rented under an open contract was refused, next to
\* a car that is not rented, two contract ids having been handed out
C22_Witness ==
    /\ out = <<Call("print", "! car is rented")>>
    /\ \E car_id \in Ids(cars) : StoredStatus(cars, car_id) = 1 /\ has_open(car_id)
    /\ \E car_id \in Ids(cars) : StoredStatus(cars, car_id) \notin {-1, 1}
    /\ contracts.h.next_id > 2


\* C23: in update_car, when the new status is retired and the car has an
\* active contract with returned = 0, the car record is stored with status
\* retired before the open-contract check runs: the rejection is reported
\* after the update, and the stored status is retired afterwards.
C23_RetiredStoredBeforeCheck ==
    [][cars.h # None =>
          \A car_id \in Ids(cars) :
              (StoredStatus(cars, car_id) # -1 /\ has_open(car_id) /\ update_car(car_id, 3))
                  => /\ out' = <<Call("cars.update_record", "ok"),
                                 Call("print", "* car updated"),
                                 Call("print", "! open contract, retired not allowed")>>
                     /\ StoredStatus(cars', car_id) = 3
                     /\ contracts' = contracts]_vars

\* a car rented under a live contract was set to retired and the rejection
\* was printed
C23_Witness ==
    /\ Len(out) = 3
    /\ out[3] = Call("print", "! open contract, retired not allowed")
    /\ contracts.h.active_count = 1
    /\ \E car_id \in Ids(cars) : StoredStatus(cars, car_id) = 3 /\ has_open(car_id)


\* C24: in add_contract the car's status is changed to rented only after the
\* contract's add_record has succeeded; when the car is missing or not
\* available, the customer is missing, or the contract insert fails, the car
\* record (the whole cars table) is left unchanged.
C24_CarRentedAfterContract ==
    [][(cars.h # None /\ customers.h # None) =>
          \A cus_id \in Ids(customers), car_id \in Ids(cars) :
              add_contract(cus_id, car_id)
                  => /\ (cars' # cars)
                        => /\ Len(out') = 3
                           /\ out'[1] = Call("contracts.add_record", "ok")
                           /\ out'[2] = Call("cars.update_record", "ok")
                           /\ StoredStatus(cars', car_id) = 1
                     /\ (\/ StoredStatus(cars, car_id) # 0
                         \/ BinTable_read_record(customers, cus_id) = None
                         \/ out'[1] # Call("contracts.add_record", "ok"))
                        => cars' = cars]_vars

\* the contract insert failed after it wrote the contract's record, and the
\* car the contract names is still available
C24_Witness ==
    /\ out = <<Call("contracts.add_record", "index full")>>
    /\ \E car_id \in Ids(cars) : StoredStatus(cars, car_id) = 0 /\ has_open(car_id)
    /\ contracts.h.active_count = 1


\* the encoded text s fits a field of n bytes and comes back from dec as it is
Storable(s, n) ==
    /\ \A i \in 1..Len(s) : s[i] # "surrogate"
    /\ s # <<>> => s[Len(s)] # "NUL"
    /\ Len(encode(s)) <= n

\* C25: for each record type, unpack(pack(v)) returns v for every value v
\* pack accepts, including text values whose UTF-8 encoding is exactly as
\* long as, or longer than, the field's byte width.
C25_RoundTrip ==
    (rt # None /\ rt.back # None) => rt.back = rt.v

\* C25, amended: unpack(pack(v)) returns v for every value v pack accepts
\* whose text values are encodable, do not end with a NUL character and have
\* a UTF-8 encoding no longer than the field's byte width, texts exactly as
\* long as the field included.  A text whose encoding is longer than the
\* width is stored cut to the width, and unpack returns a shorter text.
C25_RoundTripOfStorable ==
    (rt # None /\ rt.back # None) =>
        /\ (\A name \in TextNames(rt.fmt) :
                Storable(rt.v[name], FieldOf(rt.fmt, name).n))
              => rt.back = rt.v
        /\ \A name \in TextNames(rt.fmt) :
              Len(encode(rt.v[name])) > FieldOf(rt.fmt, name).n
                  => /\ rt.raw[name] = SubSeq(encode(rt.v[name]), 1, FieldOf(rt.fmt, name).n)
                     /\ Len(rt.back[name]) < Len(rt.v[name])

\* a car whose model text of multi-byte characters fills its 16 bytes
\* exactly, with the largest integers, has come back from unpack
C25_Witness ==
    /\ rt # None /\ rt.back # None
    /\ rt.fmt = CARS_FMT
    /\ Len(encode(rt.v["model"])) = 16
    /\ \E i \in 1..Len(rt.v["model"]) : rt.v["model"][i] = "ko_kai"
    /\ rt.v["year"] = 65535
    /\ rt.back = rt.v


\* the first empty slot of k's probe sequence has a tombstone before it
TombBeforeFirstEmpty(k) ==
    /\ \E e \in SlotNos : IsEmpty(e)
    /\ \E t \in SlotNos : IsTomb(t) /\ \A e \in SlotNos : IsEmpty(e) => Dist(k, t) < Dist(k, e)

\* the first tombstone of k's probe sequence
FirstTomb(k) ==
    CHOOSE t \in SlotNos : IsTomb(t) /\ \A u \in SlotNos : IsTomb(u) => Dist(k, t) <= Dist(k, u)

\* C26: when the insert probe for a key that is not live meets at least one
\* tombstone before the first empty slot of its probe sequence, a successful
\* add stores the key in the first tombstone met, and every other slot (the
\* empty slot, any later tombstone) is left as it was.
C26_FirstTombstoneReused ==
    [][\A k \in Keys, v \in Vals :
          (/\ f = "open" /\ k \notin LiveKeys /\ TombBeforeFirstEmpty(k)
           /\ add_record(k, pack(1, v)) /\ last'.res = "ok")
              => /\ index'[FirstTomb(k)].key = k
                 /\ \A j \in SlotNos \ {FirstTomb(k)} : index'[j] = index[j]]_vars

\* after two deletions one tombstone is left, behind the key just added and
\* before an empty slot of that key's probe sequence
C26_Witness ==
    /\ last = Call("add", "ok")
    /\ h.deleted_count = 2
    /\ Cardinality({t \in SlotNos : IsTomb(t)}) = 1
    /\ \E j, t, e \in SlotNos :
          /\ IsLive(j) /\ IsTomb(t) /\ IsEmpty(e)
          /\ Dist(index[j].key, j) = 0
          /\ Dist(index[j].key, t) < Dist(index[j].key, e)


\* C27: add stores its record at the position held in free_head whenever the
\* free list is not empty, leaving the record count unchanged and setting
\* free_head to the next-free value stored in that record; only when the
\* free list is empty does it store the record at position N, the record
\* count, which grows by exactly one.  No operation decreases the record count.
C27_AllocFromFreeHead ==
    [][/\ records_count(recs') >= records_count(recs)
       /\ \A k \in Keys, v \in Vals :
             (f = "open" /\ add_record(k, pack(1, v)))
                 => LET n == records_count(recs)
                        i == IF h.free_head # -1 THEN h.free_head ELSE n
                    IN  /\ read_raw(recs', i) = pack(1, v)
                        /\ \A j \in 0..(n - 1) : j # i => read_raw(recs', j) = read_raw(recs, j)
                        /\ last'.res = "ok" => lookup(index', h', k).rec_index = i
                        /\ IF h.free_head # -1
                           THEN /\ records_count(recs') = n
                                /\ h'.free_head = read_raw(recs, h.free_head).next_free
                           ELSE /\ records_count(recs') = n + 1
                                /\ h'.free_head = -1]_vars

\* the second of two freed positions was handed out again and the first is
\* the head of the free list
C27_Witness ==
    /\ last = Call("add", "ok")
    /\ h.deleted_count = 2
    /\ h.active_count + h.deleted_count > records_count(recs)
    /\ h.free_head # -1
    /\ read_raw(recs, h.free_head).flag = 0
    /\ read_raw(recs, h.free_head).next_free = -1


EmptySlots(idx) == {j \in DOMAIN idx : idx[j].key = 0}

\* C28: once the table is created no operation changes index_slots, and no
\* operation turns an index slot that is not empty (live or tombstone) back
\* into an empty slot, so the number of empty slots never increases.
C28_NoSlotEmptied ==
    [][exists =>
          /\ h # None => (h'.index_slots = h.index_slots /\ h.index_slots = slots)
          /\ file_h'.index_slots = file_h.index_slots
          /\ DOMAIN index' = DOMAIN index
          /\ \A j \in DOMAIN index : index[j].key # 0 => index'[j].key # 0
          /\ Cardinality(EmptySlots(index')) <= Cardinality(EmptySlots(index))]_vars

\* the slot of a deleted key is a tombstone, next to a live slot and an empty
\* slot, in the second session and after an add that was refused
C28_Witness ==
    /\ last = Call("delete", "ok")
    /\ opens = 2
    /\ \E j \in SlotNos : IsTomb(j)
    /\ \E j \in SlotNos : IsLive(j)
    /\ Cardinality(EmptySlots(index)) = 1
    /\ \E i \in 0..(MaxRecs - 1) : Orphan(i)


\* C29: read, update and delete called with key 0 or with the tombstone
\* sentinel 0xFFFFFFFF as the key report not-found and change nothing, also
\* when the index holds tombstones: a tombstone slot is never matched as if
\* it were a stored key.
C29_ReservedKeysNotFound ==
    /\ [](f = "open" => \A k \in Reserved : read(k) = None)
    /\ [][\A k \in Reserved :
             (\/ \E v \in Vals : update_record(k, pack(1, v))
              \/ delete_record(k))
                 => /\ last'.res = "not found"
                    /\ UNCHANGED <<index, recs, h, file_h>>]_vars


\* C30: the engine refines a key-to-record map: after any sequence of add,
\* update and delete calls with valid keys on one open engine, read(k)
\* returns exactly the record last passed to a successful add(k, .) or
\* update(k, .) for every live key k, and not-found for every key that was
\* never added or was deleted since its last successful add.
C30_RefinesMap ==
    f = "open" =>
        \A k \in Keys : read(k) = IF k \in LiveKeys THEN kv[k] ELSE None

\* after two deletions a key that was just updated reads its new record,
\* next to a tombstone; the other keys read not-found, and a failed add has
\* left a record behind
C30_Witness ==
    /\ f = "open"
    /\ h.deleted_count = 2
    /\ last = Call("update", "ok")
    /\ \E k \in LiveKeys : read(k) = pack(1, 2)
    /\ \E k \in Keys \ LiveKeys : read(k) = None
    /\ \E j \in SlotNos : IsTomb(j)
    /\ \E i \in 0..(MaxRecs - 1) : Orphan(i)


\* the record positions designated by live index slots
LivePositions == {index[j].rec_index : j \in {s \in SlotNos : IsLive(s)}}

\* C31: across add, update and delete calls with valid keys, failed adds
\* included, interleaved with close and reopen of the file, no two live
\* keys' index slots designate the same record position, and no add writes
\* its record at a position that a live key's slot designates.
C31_NoSharedPosition ==
    /\ [](f = "open" =>
            \A i, j \in SlotNos :
                (i # j /\ IsLive(i) /\ IsLive(j)) => index[i].rec_index # index[j].rec_index)
    /\ [][\A k \in Keys, v \in Vals :
             (f = "open" /\ add_record(k, pack(1, v)))
                 => alloc_rec_index(h, recs).i \notin LivePositions]_vars


\* C32: after every call on an open engine, failed adds included, the
\* free_head of the in-memory header equals the free_head stored in the
\* file, and a close followed by a reopen leaves the record position the
\* next add will use as it was.
C32_FreeHeadStored ==
    /\ [](f = "open" => h.free_head = file_h.free_head)
    /\ [][(open_existing /\ last'.res = "ok")
             => alloc_rec_index(h', recs').i = alloc_rec_index(h, recs).i]_vars


\* the positions read one after the other from position p on by following
\* the next-free values, -1 excluded, for at most n steps
RECURSIVE ChainSeq(_, _, _)
ChainSeq(rs, p, n) ==
    IF n = 0 \/ p = -1 THEN <<>>
    ELSE <<p>> \o (IF p < 0 \/ p >= records_count(rs) THEN <<>>
                   ELSE ChainSeq(rs, read_raw(rs, p).next_free, n - 1))

\* C33: on one open engine, after add, update and delete calls with valid
\* keys, the chain from free_head along the stored next-free values is
\* finite, repeats no position and ends at -1; every position on it exists
\* and holds a record with flag 0, and no live index slot designates it.
C33_FreeListWellFormed ==
    f = "open" =>
        LET n == records_count(recs)
            c == ChainSeq(recs, h.free_head, n + 1)
        IN  /\ Len(c) <= n
            /\ \A a, b \in DOMAIN c : a # b => c[a] # c[b]
            /\ \A a \in DOMAIN c :
                  /\ c[a] >= 0 /\ c[a] < n
                  /\ read_raw(recs, c[a]).flag = 0
                  /\ c[a] \notin LivePositions
            /\ c # <<>> => read_raw(recs, c[Len(c)]).next_free = -1

\* two positions are on the free list, beside a live key whose record was
\* just updated and a record that a failed add left behind
C33_Witness ==
    /\ f = "open"
    /\ last = Call("update", "ok")
    /\ Len(ChainSeq(recs, h.free_head, records_count(recs) + 1)) = 2
    /\ LivePositions # {}
    /\ \E i \in 0..(MaxRecs - 1) : Orphan(i)


\* one engine opened once, called with add and delete only, with the count
\* of its add calls and of those that failed
NextOrphan ==
    /\ \/ open_new /\ UNCHANGED allocs
       \/ \E key \in Keys :
             allocs.n < MaxAllocs /\ add_record(key, pack(1, 1)) /\ allocs' = AllocsAdd
       \/ \E key \in Keys :
             CanDelete(key, MaxDeletedLifo) /\ delete_record(key) /\ UNCHANGED allocs
    /\ UNCHANGED <<lifo, it, app, rt>>

SpecOrphan == Init /\ [][NextOrphan]_vars

\* the record positions whose flag byte is 1: those iter_active yields
ActivePositions == yielding("active", recs, 0, records_count(recs))

\* C34: after add and delete calls with flag-1 payloads, failed adds
\* included, the record positions with flag 1 are exactly the positions
\* designated by live index slots, and their number equals active_count.
C34_ActiveIsLive ==
    f = "open" =>
        /\ ActivePositions = LivePositions
        /\ Cardinality(ActivePositions) = h.active_count

\* C34, amended: on one open engine the positions designated by live index
\* slots all have flag 1, there is one per live key and their number equals
\* active_count; the positions with flag 1 are these and one more for every
\* add that failed.
C34_ActiveIsLiveAndOrphans ==
    f = "open" =>
        /\ LivePositions \subseteq ActivePositions
        /\ Cardinality(LivePositions) = Cardinality(LiveKeys)
        /\ Cardinality(LivePositions) = h.active_count
        /\ Cardinality(ActivePositions \ LivePositions) = allocs.failed
        /\ \A i \in ActivePositions \ LivePositions : Orphan(i)

\* after two failed adds and a deletion the iteration yields the record of
\* the one live key and the two records the failed adds left behind
C34_Witness ==
    /\ f = "open"
    /\ allocs.failed = 2
    /\ h.deleted_count >= 1
    /\ h.active_count = 1
    /\ Cardinality(ActivePositions) = 3


\* C35: return_car, given the id of an existing contract with returned = 0
\* and a return date not earlier than the rent date, stores the contract
\* with returned = 1 (with the return date and the total) and stores the
\* contract's car with status available.
C35_ReturnClosesContract ==
    [][contracts.h # None =>
          \A rid \in Ids(contracts) :
              LET raw == BinTable_read_record(contracts, rid)
              IN  (raw # None /\ Contracts_unpack(raw).returned = 0 /\ return_car(rid, TRUE))
                      => LET after == BinTable_read_record(contracts', rid)
                         IN  /\ after # None
                             /\ Contracts_unpack(after).returned = 1
                             /\ StoredStatus(cars', Contracts_unpack(raw).car_id) = 0]_vars


\* the application with one customer, one car and room for two contracts
InitRent ==
    /\ slots = Slots /\ f = "None" /\ exists = FALSE /\ h = None /\ file_h = None
    /\ index = <<>> /\ recs = <<>> /\ last = Call("init", "ok") /\ ids = <<>>
    /\ kv = <<>> /\ opens = 0 /\ lifo = NoLifo /\ allocs = NoAllocs /\ it = None
    /\ customers = Table(CustSlots)
    /\ cars = Table(RentCarsSlots)
    /\ contracts = Table(RentContSlots)
    /\ out = <<>>
    /\ rt = None

NextRent ==
    /\ \/ App_open
       \/ App_close
       \/ Opened /\ customers.h.next_id <= MaxCustIds /\ add_customer
       \/ \E stat \in CAR_STATUS : Opened /\ cars.h.next_id <= RentMaxCarIds /\ add_car(stat)
       \/ Opened /\ contracts.h.next_id <= RentMaxContIds
             /\ \E cus_id \in Ids(customers), car_id \in Ids(cars) :
                   add_contract(cus_id, car_id)
       \/ Opened /\ \E car_id \in Ids(cars), stat \in CAR_STATUS : update_car(car_id, stat)
       \/ Opened /\ \E rid \in Ids(contracts), ret_ok \in BOOLEAN : return_car(rid, ret_ok)
       \/ Opened /\ \E cid \in Ids(customers) :
             MayDelete(customers, cid) /\ delete_customer(cid)
       \/ Opened /\ \E car_id \in Ids(cars) : MayDelete(cars, car_id) /\ delete_car(car_id)
       \/ Opened /\ \E rid \in Ids(contracts) :
             MayDelete(contracts, rid) /\ delete_contract(rid)
    /\ UNCHANGED <<engine, rt>>

SpecRent == InitRent /\ [][NextRent]_vars

\* the ids of the live contracts of a car that are active and not returned
OpenContracts(car_id) ==
    {rid \in Ids(contracts) :
        LET raw == BinTable_read_record(contracts, rid)
        IN  /\ raw # None
            /\ Contracts_unpack(raw).flag = 1
            /\ Contracts_unpack(raw).car_id = car_id
            /\ Contracts_unpack(raw).returned = 0}

\* C36: under any sequence of the application's operations each car has at
\* most one active contract with returned = 0.
C36_OneOpenContractPerCar ==
    Opened => \A car_id \in Ids(cars) : Cardinality(OpenContracts(car_id)) <= 1


\* ------------------------------------------------------------- the licence plate of a car
\* str.strip(): the text without its leading and trailing whitespace
RECURSIVE lstrip_sp(_)
lstrip_sp(s) == IF s # <<>> /\ Head(s) = "sp" THEN lstrip_sp(Tail(s)) ELSE s
RECURSIVE rstrip_sp(_)
rstrip_sp(s) ==
    IF s # <<>> /\ s[Len(s)] = "sp" THEN rstrip_sp(SubSeq(s, 1, Len(s) - 1)) ELSE s
strip(s) == rstrip_sp(lstrip_sp(s))

is_plate(s) == 0 < Len(strip(s)) /\ Len(strip(s)) <= 16

\* what is typed at the plate prompt: a run of one character, with or
\* without a space before and after it
PlateInputs ==
    {pre \o Rep(c, n) \o post :
        pre \in {<<>>, <<"sp">>}, post \in {<<>>, <<"sp">>},
        c \in {"a", "sp", "ko_kai"}, n \in 0..MaxRun}

\* the other fields of the car that is entered
CarWith(plate) == Value(CARS_FMT, "license", plate, FALSE)

InitPlate ==
    /\ slots = Slots /\ f = "None" /\ exists = FALSE /\ h = None /\ file_h = None
    /\ index = <<>> /\ recs = <<>> /\ last = Call("init", "ok") /\ ids = <<>>
    /\ kv = <<>> /\ opens = 0 /\ lifo = NoLifo /\ allocs = NoAllocs /\ it = None
    /\ customers = None /\ cars = None /\ contracts = None /\ out = <<>>
    /\ \E s \in PlateInputs :
          rt = [input |-> s, plate |-> None, raw |-> None, back |-> None, res |-> "prompt"]

\* add_car and update_car up to their validity check: the input is stripped
\* and refused unless is_plate holds of it
plate_entered ==
    /\ rt.res = "prompt"
    /\ LET plate == strip(rt.input)
       IN  rt' = IF is_plate(plate)
                 THEN [rt EXCEPT !.plate = plate, !.res = "valid"]
                 ELSE [rt EXCEPT !.res = "invalid"]

\* the car is packed and written; the engine stores the bytes as they are
plate_stored ==
    /\ rt.res = "valid"
    /\ rt' = [rt EXCEPT !.raw = pack_record(CARS_FMT, CarWith(rt.plate)), !.res = "stored"]

\* the car is read back and unpacked
plate_read ==
    /\ rt.res = "stored"
    /\ rt' = [rt EXCEPT !.back = unpack_record(CARS_FMT, rt.raw), !.res = "read"]

NextPlate == (plate_entered \/ plate_stored \/ plate_read) /\ UNCHANGED <<engine, app>>

SpecPlate == InitPlate /\ [][NextPlate]_vars

\* C37: every licence plate that add_car or update_car accepts (1 to 16
\* characters) is stored in full: the car read back has the plate that was
\* entered.
C37_PlateStoredInFull ==
    rt.res = "read" => rt.back.license = rt.plate

====
